---- MODULE Spec2Model ----
(***************************************************************************)
(* Model of the YouTube Playlist Downloader (YPD) command-line scripts.    *)
(*                                                                         *)
(* The repository holds four scripts that implement the same workflow:     *)
(*   "index"  src/index.mjs               playlist only, zip on request    *)
(*   "first"  src/unnamed/part_000:1-131  playlist only, always zips       *)
(*   "spawn"  src/unnamed/part_000:133-503 menu, spawns yt-dlp, zip/tar.gz *)
(*   "exec"   src/unnamed/part_001        menu, yt-dlp-exec, zip           *)
(* One behaviour of the model is a sequence of runs of one script against  *)
(* one filesystem.                                                         *)
(***************************************************************************)
EXTENDS Integers, Sequences, FiniteSets, TLC

\* ---------------------------------------------------------------- bounds
MaxVideos == 3      \* entries a fetched playlist can have
MaxTextLen == 3     \* characters of links.txt
MaxRuns == 2        \* consecutive runs of the script

\* ---------------------------------------------------------------- names
Variants == {"index", "first", "spawn", "exec"}

HasMenu(v) == v \in {"spawn", "exec"}

Dirs == {"downloads", "videos", "multi", "zip", "playlist"}

\* "downloads" is the parent of the four mode directories.
Under(d) == IF d = "downloads" THEN Dirs ELSE {d}

LinkChars == {"u", " ", "\n"}

\* ---------------------------------------------------------------- state
VARIABLES
    variant,      \* which script is run
    run,          \* number of the current run
    pc,           \* position of the main runner
    mode,         \* menu choice: "none", "single", "multi", "playlist"
    dirs,         \* directories that exist
    files,        \* files[d]: names of the files in directory d
    archives,     \* archive files on disk (zip directory or script directory)
    created,      \* directories this run has created
    nVideos,      \* entries of the fetched playlist
    linksText,    \* links.txt as read in multi mode
    jobs,         \* the batch: titles (playlist) or URLs (single, multi)
    i,            \* 1-based index of the current job
    inFlight,     \* jobs whose external download call is running
    calls,        \* jobs whose external download call has been made, in order
    results,      \* result of each completed external call, in order
    report,       \* outcome lines printed to the operator, in order
    notices,      \* other conditions reported to the operator
    asked,        \* the archive confirmation question has been shown
    zipChoice,    \* its answer: "none", "yes", "no"
    comp,         \* compression format
    target,       \* name of the archive this run writes
    preArchive,   \* contents of the source directory when the archive step began
    members,      \* member list of the archive this run has finished
    err,          \* exception in flight: "none", "ExitPromptError", "Error"
    cancelledAt,  \* prompt at which the operator aborted, or "none"
    exitCode      \* -1 while running, else the process exit code

vars == <<variant, run, pc, mode, dirs, files, archives, created, nVideos, linksText,
          jobs, i, inFlight, calls, results, report, notices, asked,
          zipChoice, comp, target, preArchive, members, err, cancelledAt, exitCode>>

fsVars == <<dirs, files, archives, created>>
batchVars == <<nVideos, linksText, jobs, i, inFlight, calls, results, report>>
zipVars == <<asked, zipChoice, comp, target, preArchive, members>>
endVars == <<err, cancelledAt, exitCode>>

\* ---------------------------------------------------------------- helpers
RECURSIVE Split(_)
\* text.split("\n"): the lines of a text, at least one
Split(text) ==
    IF \A k \in 1..Len(text) : text[k] # "\n"
    THEN <<text>>
    ELSE LET k == CHOOSE k \in 1..Len(text) :
                      text[k] = "\n" /\ \A j \in 1..(k-1) : text[j] # "\n"
         IN <<SubSeq(text, 1, k-1)>> \o Split(SubSeq(text, k+1, Len(text)))

IsSpace(c) == c \in {" ", "\n"}

RECURSIVE Trim(_)
\* s.trim(): leading and trailing white space removed
Trim(s) ==
    IF s = <<>> THEN s
    ELSE IF IsSpace(s[1]) THEN Trim(Tail(s))
    ELSE IF IsSpace(s[Len(s)]) THEN Trim(SubSeq(s, 1, Len(s)-1))
    ELSE s

RECURSIVE FilterNonEmpty(_)
\* list.filter(Boolean) on strings: the empty string is dropped
FilterNonEmpty(list) ==
    IF list = <<>> THEN <<>>
    ELSE IF Head(list) = <<>> THEN FilterNonEmpty(Tail(list))
    ELSE <<Head(list)>> \o FilterNonEmpty(Tail(list))

\* variant of ParseLinks: the lines are filtered without being trimmed
ParseLinksNoTrim(text) == FilterNonEmpty(Split(text))

\* .split("\n").map(s => s.trim()).filter(Boolean)
ParseLinks(text) ==
    LET lines == Split(text)
    IN FilterNonEmpty([k \in 1..Len(lines) |-> Trim(lines[k])])

Unsafe == {"<", ">", ":", "\"", "/", "\\", "|", "?", "*"}

RECURSIVE sanitizeNoBackslash(_)
\* variant of sanitize: the backslash is missing from the character class
sanitizeNoBackslash(name) ==
    IF name = <<>> THEN <<>>
    ELSE IF Head(name) \in Unsafe \ {"\\"} THEN sanitizeNoBackslash(Tail(name))
    ELSE <<Head(name)>> \o sanitizeNoBackslash(Tail(name))

RECURSIVE sanitize(_)
\* name.replace(/[<>:"/\\|?*]+/g, "")
sanitize(name) ==
    IF name = <<>> THEN <<>>
    ELSE IF Head(name) \in Unsafe THEN sanitize(Tail(name))
    ELSE <<Head(name)>> \o sanitize(Tail(name))

\* title of the v-th entry of the fetched playlist
Title(v) == [k \in 1..v |-> "a"]

RECURSIVE Ordered(_)
\* the checkbox answer: the chosen entries, in list order
Ordered(sel) ==
    IF sel = {} THEN <<>>
    ELSE LET v == CHOOSE v \in sel : \A w \in sel : v <= w
         IN <<Title(v)>> \o Ordered(sel \ {v})

RECURSIVE Texts(_)
Texts(n) ==
    IF n = 0 THEN {<<>>}
    ELSE LET shorter == Texts(n-1)
         IN shorter \cup {Append(t, c) : t \in {t \in shorter : Len(t) = n-1}, c \in LinkChars}

\* links.txt as the operator may have left it
LinksTexts == Texts(MaxTextLen)

\* the directory the downloads of a mode go to
DestDir(v, m) ==
    IF ~HasMenu(v) THEN "downloads"
    ELSE IF m = "single" THEN "videos"
    ELSE IF m = "multi" THEN "multi"
    ELSE "playlist"

\* the file a successful download of job j leaves in the destination
FileOf(v, j) == IF HasMenu(v) THEN j ELSE sanitize(j)

NoArchive == [kind |-> "none", n |-> 0, ext |-> "none"]

NameOf(a) == [kind |-> a.kind, n |-> a.n, ext |-> a.ext]

\* readdir(zipDir).filter(f => f.startsWith("multi-")).length + 1
MultiCount(arch) == Cardinality({a \in arch : a.kind = "multi"}) + 1

\* the archive file name chosen for a mode
ArchiveName(v, m, arch, c) ==
    IF m = "multi"
    THEN [kind |-> "multi", n |-> MultiCount(arch), ext |-> c]
    ELSE [kind |-> "playlist", n |-> 0, ext |-> c]

\* fs.ensureDir
EnsureDir(ds, d) == ds \cup {d, "downloads"}

\* fs.remove
RemoveDir(ds, d) == ds \ Under(d)

RemoveFiles(fs, d) == [e \in Dirs |-> IF e \in Under(d) THEN {} ELSE fs[e]]

\* fs.createWriteStream(file): the file exists, empty, from now on
OpenArchive(arch, name) ==
    {a \in arch : NameOf(a) # name}
        \cup {[kind |-> name.kind, n |-> name.n, ext |-> name.ext, state |-> "partial"]}

\* the output stream is closed on a finalized archive
CloseArchive(arch, name) ==
    {a \in arch : NameOf(a) # name}
        \cup {[kind |-> name.kind, n |-> name.n, ext |-> name.ext, state |-> "complete"]}

\* archive.directory(folder, false): the files of the folder, at the archive root
createZip(folder, fs) == {[dir |-> "", file |-> f] : f \in fs}

\* tar.c({cwd: parentDir}, [folderName]): the folder and its files, under its name
createTarGz(folder, fs) ==
    {[dir |-> folder, file |-> <<>>]} \cup {[dir |-> folder, file |-> f] : f \in fs}

\* ---------------------------------------------------------------- policies
\* the lines a script prints about job k once its external call returned
OutcomeLines(v, m, k, result) ==
    LET line(st) == [job |-> k, status |-> st]
    IN IF result = "ok" THEN <<line("Completed")>>
       ELSE IF v = "exec" /\ m \in {"single", "multi"}
            THEN <<line("Failed"), line("Completed")>>
            ELSE <<line("Failed")>>

\* variant of CallThrows: a failed call is not caught in the loop body
CallThrowsOnFail(v, m, result) == IF result = "fail" THEN "Error" ELSE "none"

\* what a returned call throws into the loop: every script catches the failure
CallThrows(v, m, result) == "none"

\* where the runner goes once the last job is done
AfterLoop(v, m) ==
    IF m = "single" THEN "allDone"
    ELSE IF v = "first" THEN "archiveOpen"
    ELSE "confirm"

\* a failed playlist fetch ends the process (exit 1) or only the mode (return)
FetchFailExits(v) == v # "spawn"

\* a missing or empty links.txt ends the process (exit 1) or only the mode
NoLinksExits(v) == v = "exec"

\* variant of CatchCleans: the handler cleans up on every exception
CatchCleansAlways(v, e) == v \in {"index", "first"}

\* the catch handler removes the downloads directory
CatchCleans(v, e) == v \in {"index", "first"} /\ e = "ExitPromptError"

\* the exit code the catch handler ends the process with
CatchExit(v, e) ==
    IF v = "spawn" THEN 1
    ELSE IF e = "ExitPromptError" THEN 0 ELSE 1

\* variant of SourceKept: fs.remove in every mode
SourceKeptNever(m) == FALSE

\* how the source directory is cleared after the archive: fs.remove or fs.emptyDir
SourceKept(m) == m = "multi"

\* variant of ValidSelection: the checkbox prompt has no validator
ValidSelectionAny(sel) == TRUE

\* validate: list => list.length > 0
ValidSelection(sel) == sel # {}

PromptPcs == {"menu", "promptVideoURL", "promptFormat", "promptPlaylistURL",
              "select", "confirm", "pickComp"}

\* ---------------------------------------------------------------- initial state
RunInit ==
    /\ pc = "start"
    /\ mode = "none"
    /\ created = {}
    /\ nVideos = 0
    /\ linksText = <<>>
    /\ jobs = <<>>
    /\ i = 1
    /\ inFlight = {}
    /\ calls = <<>>
    /\ results = <<>>
    /\ report = <<>>
    /\ notices = {}
    /\ asked = FALSE
    /\ zipChoice = "none"
    /\ comp = "none"
    /\ target = NoArchive
    /\ preArchive = {}
    /\ members = {}
    /\ err = "none"
    /\ cancelledAt = "none"
    /\ exitCode = -1

Init ==
    /\ variant \in Variants
    /\ run = 1
    /\ dirs = {}
    /\ files = [d \in Dirs |-> {}]
    /\ archives = {}
    /\ RunInit

\* ---------------------------------------------------------------- actions
\* module top level: the menu scripts create their directories, then the runner starts
Start ==
    /\ pc = "start"
    /\ IF HasMenu(variant)
       THEN /\ dirs' = dirs \cup {"downloads", "videos", "multi", "zip"}
            /\ created' = {"downloads", "videos", "multi", "zip"} \ dirs
            /\ pc' = "menu"
            /\ mode' = mode
       ELSE /\ pc' = "promptPlaylistURL"
            /\ mode' = "playlist"
            /\ UNCHANGED <<dirs, created>>
    /\ UNCHANGED <<variant, run, files, archives, batchVars, notices, zipVars, endVars>>

\* the mode menu is answered
ChooseMode(m) ==
    /\ pc = "menu"
    /\ mode' = m
    /\ pc' = IF m = "single" THEN "promptVideoURL"
             ELSE IF m = "multi" THEN "readLinks"
             ELSE "promptPlaylistURL"
    /\ UNCHANGED <<variant, run, fsVars, batchVars, notices, zipVars, endVars>>

\* a URL prompt is answered; the validator re-prompts on anything not starting with http
EnterURL(valid) ==
    /\ pc \in {"promptVideoURL", "promptPlaylistURL"}
    /\ IF ~valid
       THEN UNCHANGED <<pc, jobs>>
       ELSE IF pc = "promptPlaylistURL"
       THEN pc' = "fetchInfo" /\ jobs' = jobs
       ELSE /\ jobs' = << <<"u">> >>
            /\ pc' = IF variant = "exec" THEN "getFormats" ELSE "loop"
    /\ UNCHANGED <<variant, run, mode, linksText, fsVars, nVideos, i, inFlight, calls, results,
                   report, notices, zipVars, endVars>>

\* exec script, single mode: the formats of the video are fetched
getFormats(ok) ==
    /\ pc = "getFormats"
    /\ IF ok
       THEN pc' = "promptFormat" /\ UNCHANGED <<notices, exitCode>>
       ELSE /\ notices' = notices \cup {"formatsFailed"}
            /\ pc' = "exited"
            /\ exitCode' = 1
    /\ UNCHANGED <<variant, run, mode, fsVars, batchVars, zipVars, err, cancelledAt>>

\* exec script, single mode: a resolution is picked
PickFormat ==
    /\ pc = "promptFormat"
    /\ pc' = "loop"
    /\ UNCHANGED <<variant, run, mode, fsVars, batchVars, notices, zipVars, endVars>>

\* multi mode up to the download loop: links.txt is looked up, read and parsed
ReadLinks(missing, text) ==
    /\ pc = "readLinks"
    /\ LET links == IF missing THEN <<>> ELSE ParseLinks(text)
       IN IF links = <<>>
          THEN /\ notices' = notices \cup {IF missing THEN "linksMissing" ELSE "linksEmpty"}
               /\ jobs' = jobs
               /\ IF NoLinksExits(variant)
                  THEN pc' = "exited" /\ exitCode' = 1
                  ELSE pc' = "allDone" /\ exitCode' = exitCode
          ELSE /\ jobs' = links
               /\ pc' = "loop"
               /\ UNCHANGED <<notices, exitCode>>
    /\ linksText' = IF missing THEN <<>> ELSE text
    /\ UNCHANGED <<variant, run, mode, fsVars, nVideos, i, inFlight, calls, results,
                   report, zipVars, err, cancelledAt>>

\* the playlist metadata is fetched: it fails, or lists n entries
getPlaylistInfo(ok, n) ==
    /\ pc = "fetchInfo"
    /\ IF ok
       THEN /\ nVideos' = n
            /\ pc' = "select"
            /\ UNCHANGED <<notices, exitCode>>
       ELSE /\ notices' = notices \cup {"fetchFailed"}
            /\ nVideos' = nVideos
            /\ IF FetchFailExits(variant)
               THEN pc' = "exited" /\ exitCode' = 1
               ELSE pc' = "allDone" /\ exitCode' = exitCode
    /\ UNCHANGED <<variant, run, mode, linksText, fsVars, jobs, i, inFlight, calls, results,
                   report, zipVars, err, cancelledAt>>

\* the checkbox prompt is answered; the validator re-prompts on an empty list;
\* then the destination directory is created
Select(sel) ==
    /\ pc = "select"
    /\ IF ~ValidSelection(sel)
       THEN UNCHANGED <<pc, jobs, dirs, created>>
       ELSE /\ jobs' = Ordered(sel)
            /\ dirs' = EnsureDir(dirs, DestDir(variant, mode))
            /\ created' = created \cup (dirs' \ dirs)
            /\ pc' = "loop"
    /\ UNCHANGED <<variant, run, mode, linksText, files, archives, nVideos, i, inFlight, calls,
                   results, report, notices, zipVars, endVars>>

\* variant of DownloadStart: the calls of all remaining jobs are made at once
DownloadStartAll ==
    /\ pc = "loop"
    /\ i <= Len(jobs)
    /\ calls' = calls \o [k \in 1..(Len(jobs) - i + 1) |-> i + k - 1]
    /\ inFlight' = inFlight \cup (i..Len(jobs))
    /\ pc' = "await"
    /\ UNCHANGED <<variant, run, mode, linksText, fsVars, nVideos, jobs, i, results, report,
                   notices, zipVars, endVars>>

\* the external download call for the current job is made
DownloadStart ==
    /\ pc = "loop"
    /\ i <= Len(jobs)
    /\ calls' = Append(calls, i)
    /\ inFlight' = inFlight \cup {i}
    /\ pc' = "await"
    /\ UNCHANGED <<variant, run, mode, linksText, fsVars, nVideos, jobs, i, results, report,
                   notices, zipVars, endVars>>

\* the external call returns; its outcome is printed and the loop moves on
DownloadFinish(result) ==
    /\ pc = "await"
    /\ inFlight' = inFlight \ {i}
    /\ results' = Append(results, result)
    /\ report' = report \o OutcomeLines(variant, mode, i, result)
    /\ files' = IF result = "ok"
                THEN [files EXCEPT ![DestDir(variant, mode)] = @ \cup {FileOf(variant, jobs[i])}]
                ELSE files
    /\ IF CallThrows(variant, mode, result) # "none"
       THEN /\ err' = CallThrows(variant, mode, result)
            /\ pc' = "catch"
            /\ UNCHANGED <<i, asked>>
       ELSE /\ i' = i + 1
            /\ pc' = IF i = Len(jobs) THEN AfterLoop(variant, mode) ELSE "loop"
            /\ asked' = (asked \/ pc' = "confirm")
            /\ err' = err
    /\ UNCHANGED <<variant, run, mode, linksText, dirs, archives, created, nVideos, jobs, calls,
                   notices, zipChoice, comp, target, preArchive, members, cancelledAt,
                   exitCode>>

\* the archive confirmation question is answered
Confirm(yes) ==
    /\ pc = "confirm"
    /\ zipChoice' = IF yes THEN "yes" ELSE "no"
    /\ pc' = IF ~yes THEN "allDone"
             ELSE IF variant = "spawn" THEN "pickComp"
             ELSE "archiveOpen"
    /\ UNCHANGED <<variant, run, mode, fsVars, batchVars, notices, asked, comp, target,
                   preArchive, members, endVars>>

\* spawn script: the compression format is chosen
selectCompressionType(c) ==
    /\ pc = "pickComp"
    /\ comp' = c
    /\ pc' = "archiveOpen"
    /\ UNCHANGED <<variant, run, mode, fsVars, batchVars, notices, asked, zipChoice,
                   target, preArchive, members, endVars>>

\* the archive file is named and opened for writing
ArchiveOpen ==
    /\ pc = "archiveOpen"
    /\ LET c == IF variant = "spawn" THEN comp ELSE "zip"
           name == ArchiveName(variant, mode, archives, c)
       IN /\ target' = name
          /\ archives' = OpenArchive(archives, name)
    /\ preArchive' = files[DestDir(variant, mode)]
    /\ pc' = "archiving"
    /\ UNCHANGED <<variant, run, mode, dirs, files, created, batchVars, notices, asked,
                   zipChoice, comp, members, endVars>>

\* the archive is finalized and its file closed
ArchiveFinish ==
    /\ pc = "archiving"
    /\ archives' = CloseArchive(archives, target)
    /\ members' = IF target.ext = "zip"
                  THEN createZip(DestDir(variant, mode), files[DestDir(variant, mode)])
                  ELSE createTarGz(DestDir(variant, mode), files[DestDir(variant, mode)])
    /\ pc' = "cleanupSrc"
    /\ UNCHANGED <<variant, run, mode, dirs, files, created, batchVars, notices, asked,
                   zipChoice, comp, target, preArchive, endVars>>

\* the archiver reports an error: the promise rejects
ArchiveFail ==
    /\ pc = "archiving"
    /\ err' = "Error"
    /\ pc' = "catch"
    /\ UNCHANGED <<variant, run, mode, fsVars, batchVars, notices, zipVars, cancelledAt,
                   exitCode>>

\* after the archive: fs.emptyDir (multi) or fs.remove of the source directory
CleanupSrc ==
    /\ pc = "cleanupSrc"
    /\ LET src == DestDir(variant, mode)
       IN /\ files' = RemoveFiles(files, src)
          /\ dirs' = IF SourceKept(mode) THEN dirs ELSE RemoveDir(dirs, src)
    /\ pc' = "allDone"
    /\ UNCHANGED <<variant, run, mode, archives, created, batchVars, notices, zipVars,
                   endVars>>

\* the runner returns: the process ends on its own
AllDone ==
    /\ pc = "allDone"
    /\ pc' = "exited"
    /\ exitCode' = 0
    /\ UNCHANGED <<variant, run, mode, fsVars, batchVars, notices, zipVars, err,
                   cancelledAt>>

\* the operator aborts a prompt: inquirer throws ExitPromptError
Cancel ==
    /\ pc \in PromptPcs
    /\ cancelledAt' = pc
    /\ err' = "ExitPromptError"
    /\ pc' = "catch"
    /\ UNCHANGED <<variant, run, mode, fsVars, batchVars, notices, zipVars, exitCode>>

\* the catch handler of the main runner
Catch ==
    /\ pc = "catch"
    /\ notices' = notices \cup {IF err = "ExitPromptError" /\ variant # "spawn"
                                THEN "cancelled" ELSE "unexpected"}
    /\ IF CatchCleans(variant, err) /\ "downloads" \in dirs
       THEN /\ dirs' = RemoveDir(dirs, "downloads")
            /\ files' = RemoveFiles(files, "downloads")
            /\ archives' = IF HasMenu(variant) THEN {} ELSE archives
       ELSE UNCHANGED <<dirs, files, archives>>
    /\ exitCode' = CatchExit(variant, err)
    /\ pc' = "exited"
    /\ UNCHANGED <<variant, run, mode, created, batchVars, zipVars, err, cancelledAt>>

\* the script is started again on the same filesystem
NewRun ==
    /\ pc = "exited"
    /\ run < MaxRuns
    /\ run' = run + 1
    /\ pc' = "start"
    /\ mode' = "none"
    /\ created' = {}
    /\ nVideos' = 0
    /\ linksText' = <<>>
    /\ jobs' = <<>>
    /\ i' = 1
    /\ inFlight' = {}
    /\ calls' = <<>>
    /\ results' = <<>>
    /\ report' = <<>>
    /\ notices' = {}
    /\ asked' = FALSE
    /\ zipChoice' = "none"
    /\ comp' = "none"
    /\ target' = NoArchive
    /\ preArchive' = {}
    /\ members' = {}
    /\ err' = "none"
    /\ cancelledAt' = "none"
    /\ exitCode' = -1
    /\ UNCHANGED <<variant, dirs, files, archives>>

\* the steps of one run
RunStep ==
    \/ Start
    \/ \E m \in {"single", "multi", "playlist"} : ChooseMode(m)
    \/ \E valid \in BOOLEAN : EnterURL(valid)
    \/ \E ok \in BOOLEAN : getFormats(ok)
    \/ PickFormat
    \/ \E missing \in BOOLEAN, text \in LinksTexts : ReadLinks(missing, text)
    \/ \E ok \in BOOLEAN, n \in 0..MaxVideos : getPlaylistInfo(ok, n)
    \/ \E sel \in SUBSET (1..nVideos) : Select(sel)
    \/ DownloadStart
    \/ \E result \in {"ok", "fail"} : DownloadFinish(result)
    \/ \E yes \in BOOLEAN : Confirm(yes)
    \/ \E c \in {"zip", "tar.gz"} : selectCompressionType(c)
    \/ ArchiveOpen
    \/ ArchiveFinish
    \/ ArchiveFail
    \/ CleanupSrc
    \/ AllDone
    \/ Cancel
    \/ Catch

Next ==
    \/ RunStep
    \/ NewRun

Spec == Init /\ [][Next]_vars

TypeOK ==
    /\ variant \in Variants
    /\ run \in 1..MaxRuns
    /\ mode \in {"none", "single", "multi", "playlist"}
    /\ dirs \subseteq Dirs
    /\ created \subseteq Dirs
    /\ nVideos \in 0..MaxVideos
    /\ i \in 1..(Len(jobs) + 1)
    /\ inFlight \subseteq 1..Len(jobs)
    /\ zipChoice \in {"none", "yes", "no"}
    /\ err \in {"none", "ExitPromptError", "Error"}
    /\ exitCode \in {-1, 0, 1}
    /\ \A d \in Dirs : d \notin dirs => files[d] = {}

\* ---------------------------------------------------------------- one run on a given zip directory
MaxExisting == 2    \* highest number of an archive already in the zip directory

\* archives the zip directory may hold when a run starts: the operator may
\* have moved or deleted any of the archives earlier runs wrote
DiskArchives ==
    {[kind |-> "multi", n |-> n, ext |-> e, state |-> "complete"] :
        n \in 1..MaxExisting, e \in {"zip", "tar.gz"}}

InitDisk ==
    /\ variant \in {"spawn", "exec"}
    /\ run = 1
    /\ dirs = {"downloads", "videos", "multi", "zip"}
    /\ files = [d \in Dirs |-> {}]
    /\ archives \in SUBSET DiskArchives
    /\ RunInit

SpecDisk == InitDisk /\ [][RunStep]_vars

\* ---------------------------------------------------------------- the download of one title
MaxNameLen == 3     \* characters of a video title

NameChars == {"a", ".", "?", "/", "\\"}

RECURSIVE Names(_)
Names(n) ==
    IF n = 0 THEN {<<>>}
    ELSE LET shorter == Names(n-1)
         IN shorter \cup {Append(t, c) : t \in {t \in shorter : Len(t) = n-1}, c \in NameChars}

\* index.mjs and the first script at the download loop, one video selected
InitTitle ==
    /\ variant \in {"index", "first"}
    /\ run = 1
    /\ dirs = {"downloads"}
    /\ files = [d \in Dirs |-> {}]
    /\ archives = {}
    /\ pc = "loop"
    /\ mode = "playlist"
    /\ created = {"downloads"}
    /\ nVideos = 1
    /\ linksText = <<>>
    /\ jobs \in {<<t>> : t \in Names(MaxNameLen)}
    /\ i = 1
    /\ inFlight = {}
    /\ calls = <<>>
    /\ results = <<>>
    /\ report = <<>>
    /\ notices = {}
    /\ asked = FALSE
    /\ zipChoice = "none"
    /\ comp = "none"
    /\ target = NoArchive
    /\ preArchive = {}
    /\ members = {}
    /\ err = "none"
    /\ cancelledAt = "none"
    /\ exitCode = -1

DownloadStep ==
    \/ DownloadStart
    \/ \E result \in {"ok", "fail"} : DownloadFinish(result)

SpecTitle == InitTitle /\ [][DownloadStep]_vars

\* ---------------------------------------------------------------- properties
Batch == mode \in {"multi", "playlist"}

\* the download loop of this run has been entered and left
LoopLeft == jobs # <<>> /\ pc \notin {"getFormats", "promptFormat", "loop", "await"}

Src == DestDir(variant, mode)

Downloaded == {FileOf(variant, jobs[k]) : k \in {k \in 1..Len(results) : results[k] = "ok"}}

C2_OneOutcomePerJob ==
    (Batch /\ LoopLeft) =>
        /\ Len(report) = Len(jobs)
        /\ \A k \in 1..Len(report) : report[k].job = k

\* C3: a job whose call failed is reported Failed, and only a job whose call
\* succeeded is reported Completed.
C3_StatusMatchesResult ==
    /\ \A k \in 1..Len(results) :
           results[k] = "fail" =>
               \E r \in 1..Len(report) : report[r].job = k /\ report[r].status = "Failed"
    /\ \A r \in 1..Len(report) :
           report[r].status = "Completed" => results[report[r].job] = "ok"

\* C4: an archive is written in a run only after the confirmation question was
\* asked and answered yes.
C4_ArchiveOnlyOnYes ==
    target # NoArchive => (asked /\ zipChoice = "yes")

\* C5: after a cancelled run has ended, none of the directories it created exists.
C5_CancelCleansUp ==
    (pc = "exited" /\ cancelledAt # "none") => created \cap dirs = {}

\* C6: exit code 0 on normal completion and on cancellation, 1 on an error.
C6_ExitCodes ==
    pc = "exited" =>
        /\ cancelledAt # "none" => exitCode = 0
        /\ err = "Error" => exitCode = 1
        /\ (err = "none" /\ notices = {}) => exitCode = 0

\* the parts of C7 the original and the amended statement share: on "no" the
\* downloads stay and no archive is written; on "yes" the source directory is
\* untouched until the archive is complete
C7_Common ==
    /\ (Batch /\ pc \in {"allDone", "exited"} /\ zipChoice = "no") =>
           /\ Downloaded \subseteq files[Src]
           /\ Src \in dirs
           /\ target = NoArchive
    /\ (Batch /\ zipChoice = "yes" /\ pc \in {"pickComp", "archiveOpen", "archiving"}) =>
           /\ Downloaded \subseteq files[Src]
           /\ Src \in dirs
    /\ (Batch /\ zipChoice = "yes" /\ pc = "cleanupSrc") =>
           /\ files[Src] = preArchive
           /\ \E a \in archives : NameOf(a) = target /\ a.state = "complete"

YesRunDone ==
    Batch /\ zipChoice = "yes" /\ pc = "exited" /\ err = "none"

\* C7 as stated: after a successful yes-run the source directory no longer exists.
C7_Original ==
    /\ C7_Common
    /\ YesRunDone => Src \notin dirs

\* C7 amended: after a successful yes-run the source directory holds no file;
\* it is removed in playlist mode and kept, empty, in multi mode.
C7_Amended ==
    /\ C7_Common
    /\ YesRunDone =>
           /\ files[Src] = {}
           /\ mode = "playlist" => Src \notin dirs
           /\ mode = "multi" => Src \in dirs

\* a multi run archived its downloads and ended
C7_Witness ==
    /\ YesRunDone
    /\ mode = "multi"
    /\ preArchive # {}
    /\ \E a \in archives : NameOf(a) = target /\ a.state = "complete"

C9_NoPartialArchive ==
    pc = "exited" => \A a \in archives : a.state = "complete"

\* C10: multi mode without a usable links.txt reports it, makes no download
\* call and returns to the main runner, which ends normally.
C10_NoLinksEndsModeOnly ==
    (mode = "multi" /\ pc # "readLinks" /\ jobs = <<>>) =>
        /\ notices \cap {"linksMissing", "linksEmpty"} # {}
        /\ calls = <<>>
        /\ pc \in {"allDone", "exited"}
        /\ exitCode # 1

\* C11: after a failed playlist fetch the failure is reported, the selection
\* prompt is never reached, no download is started, and only the mode ends:
\* the runner returns and the process ends normally.
C11_FetchFailureEndsModeOnly ==
    "fetchFailed" \in notices =>
        /\ pc \in {"allDone", "exited"}
        /\ jobs = <<>>
        /\ calls = <<>>
        /\ exitCode # 1

\* C12: in playlist mode the runner is in or past the download loop only with
\* a non-empty selection; an empty answer leaves it at the selection prompt.
C12_SelectionNonEmpty ==
    (mode = "playlist" /\ pc \in {"loop", "await", "confirm", "pickComp", "archiveOpen",
                                  "archiving", "cleanupSrc"}) =>
        /\ jobs # <<>>
        /\ Len(jobs) <= nVideos

\* the download of a one-video selection is running
C12_Witness ==
    /\ mode = "playlist"
    /\ pc = "await"
    /\ Len(jobs) = 1
    /\ nVideos > 1

\* highest number of the multi-<n> archives in the zip directory, 0 without any
Highest(arch) ==
    LET ns == {a.n : a \in {a \in arch : a.kind = "multi"}}
    IN IF ns = {} THEN 0 ELSE CHOOSE h \in ns : \A n \in ns : n <= h

\* C13: the archive of a multi run is named multi-(h+1), h the highest
\* existing number, and the name is not the name of an existing archive.
C13_NextMultiName ==
    [][(pc = "archiveOpen" /\ mode = "multi") =>
           /\ target'.n = Highest(archives) + 1
           /\ \A a \in archives : NameOf(a) # target']_vars

\* C14: a finished archive, zip or tar.gz, lists exactly the files of the
\* source directory, none under the source directory's own name.
C14_MembersAreTheFiles ==
    pc = "cleanupSrc" =>
        /\ {m.file : m \in members} = preArchive
        /\ \A m \in members : m.dir # Src

IsSafe(c) == c \notin {"<", ">", ":", "\"", "/", "\\", "|", "?", "*"}

\* C15: the file name a download is written under is the title with every
\* < > : " / \ | ? * removed and every other character kept, in order.
C15_SanitizeRemovesExactly ==
    (~HasMenu(variant) /\ Len(jobs) = 1 /\ results = <<"ok">>) =>
        files["downloads"] = {SelectSeq(jobs[1], IsSafe)}

\* a title with unsafe characters around and between safe ones has been downloaded
C15_Witness ==
    /\ results = <<"ok">>
    /\ jobs = << <<"\\", "a", "?">> >>
    /\ files["downloads"] = {<<"a">>}

\* positions around the lines of a text: before it, its line feeds, after it
Breaks(t) == {0, Len(t) + 1} \cup {k \in 1..Len(t) : t[k] = "\n"}

\* positions of the non-blank characters of the line that starts after b
Solid(t, b) ==
    LET e == CHOOSE e \in Breaks(t) : e > b /\ \A c \in Breaks(t) : c > b => e <= c
    IN {k \in (b+1)..(e-1) : t[k] # " "}

\* the starts of the lines that are not blank
NonBlank(t) == {b \in Breaks(t) \ {Len(t) + 1} : Solid(t, b) # {}}

Trimmed(t, b) ==
    LET first == CHOOSE k \in Solid(t, b) : \A j \in Solid(t, b) : k <= j
        last == CHOOSE k \in Solid(t, b) : \A j \in Solid(t, b) : j <= k
    IN SubSeq(t, first, last)

C17_ErrorCleansUp ==
    (pc = "exited" /\ err = "Error") => files[Src] = {}

\* C18: at most one external download call is in flight, and the call of a
\* job is made only when the calls of all earlier jobs have returned.
C18_OneAtATime ==
    /\ Cardinality(inFlight) <= 1
    /\ Len(calls) <= Len(results) + 1
    /\ \A c \in 1..Len(calls) : calls[c] = c
    /\ pc = "await" => (inFlight = {i} /\ Len(calls) = Len(results) + 1)
    /\ pc # "await" => (inFlight = {} /\ Len(calls) = Len(results))

\* the second call of a batch is running, the first has returned
C18_Witness ==
    /\ pc = "await"
    /\ inFlight = {2}
    /\ Len(results) = 1
    /\ Len(jobs) >= 3

\* C19: the cancellation cleanup removes no directory that existed before
\* this run, and no file in such a directory.
C19_CleanupOnlyOwn ==
    [][(pc = "catch" /\ err = "ExitPromptError") =>
           \A d \in dirs \ created : d \in dirs' /\ files[d] \subseteq files'[d]]_vars
====
